---- MODULE Spec2Model ----
(***************************************************************************)
(* A model of johnfig: the value tree and its merge, the ConfigFinder      *)
(* pipeline (locate, dedup, filter, decode, sort, fold) in its three       *)
(* generations, and the watch loop of WatchableConfig.                     *)
(***************************************************************************)
EXTENDS Integers, Sequences, FiniteSets, TLC

VARIABLES
    \* ---- merge(a, b): src/src/value/merge.rs
    a0,         \* the accumulator `a` as it was when merge was called
    a,          \* the accumulator `a: &mut Value`, mutated in place
    b,          \* the incoming value `b: Value`
    mpc,        \* "call" before merge(a, b) ran, "done" after
    \* ---- the filesystem
    fs,         \* what every path holds
    \* ---- the ConfigFinder, immutable once built
    gen,        \* the generation of the crate the finder is of
    locators,   \* ConfigFinderInner.locators / search_paths
    sorter,     \* the comparator given to with_sorting, or "none"
    filter,     \* the predicate given to with_filter, or "none"
    dflt,       \* the initializer given to with_default, or "none"
    \* ---- one call of files() or config()
    cpc,        \* "idle", or the call that returned: "files", "config"
    concat,     \* the locators' results, concatenated in registration order
    located,    \* what files() yielded
    result,     \* what config() returned
    \* ---- the watch loop: src/src/watch.rs
    events,     \* the events the watcher has sent and `recv` has not yielded
    last,       \* `last: Option<Event>` of watch(): <<>> or <<event>>
    elapsed,    \* the time since `last_time`, saturating at DebounceMs
    since,      \* the time since `recv` last yielded an event, saturating

    wpc,        \* where the background task is
    item,       \* `item`: what the watcher stream yielded last, numbered
    snapshot,   \* `config: Arc<RwLock<Config>>`, with the number of its reload
    sigs,       \* every signal broadcast so far: the number of its reload
    handle,     \* TRUE until the WatchableConfig is dropped
    lpc,        \* where the listener (a stream from listen()) is
    lpos,       \* how many signals the listener has received
    view        \* the number of the snapshot the listener read last

mergeVars == <<a0, a, b, mpc>>
finderVars == <<gen, locators, sorter, filter, dflt>>
callVars == <<cpc, concat, located, result>>
watchVars == <<events, last, elapsed, since, wpc, item, snapshot, sigs, handle,
               lpc, lpos, view>>

vars == <<mergeVars, fs, finderVars, callVars, watchVars>>

----------------------------------------------------------------------------
(* Bounds of the model.                                                    *)

\* longest list drawn as an input of merge
MaxLen == 2
\* most events waiting between the watcher and the watch loop
MaxQueued == 1
\* most reloads a behaviour of the watch loop runs
MaxReloads == 11
\* how far one step of the clock moves, in milliseconds
TickMs == 250
\* most files the filesystem holds
MaxFiles == 3

----------------------------------------------------------------------------
(* Value: src/src/value/value.rs.  Each variant is a record with one field *)
(* named after the variant, so that values of different variants compare   *)
(* as different.                                                           *)

\* Value::Option(None)
None == [N |-> 0]
\* Value::I32(n) (every integer width behaves alike under merge)
IntV(n) == [I |-> n]
\* Value::String(s)
StrV(s) == [S |-> s]
\* Value::List(Vec<Value>)
ListV(l) == [L |-> l]
\* Value::Map(BTreeMap<String, Value>): a function from its key set
MapV(m) == [M |-> m]

IsNone(v) == "N" \in DOMAIN v
IsList(v) == "L" \in DOMAIN v
IsMap(v) == "M" \in DOMAIN v
IsScalar(v) == ("I" \in DOMAIN v) \/ ("S" \in DOMAIN v)

EmptyMap == [k \in {} |-> None]

\* BTreeMap::insert / the write through the reference entry(k) returns
Put(m, k, v) == [x \in (DOMAIN m) \cup {k} |-> IF x = k THEN v ELSE m[x]]

\* BTreeMap::entry(k).or_insert(Value::Option(None)), read back
EntryOrNone(m, k) == IF k \in DOMAIN m THEN m[k] ELSE None

RECURSIVE merge(_, _)
RECURSIVE MergeEntries(_, _, _)

\* a map/map arm that overwrites the entries of a with those of b instead
\* of merging into them
MergeEntriesOverwrite(am, bm, ks) ==
    [k \in (DOMAIN am) \cup ks |-> IF k \in ks THEN bm[k] ELSE am[k]]

\* a map/map arm that inserts the entries a lacks and leaves the others
\* alone
MergeEntriesKeepOld(am, bm, ks) ==
    [k \in (DOMAIN am) \cup ks |-> IF k \in DOMAIN am THEN am[k] ELSE bm[k]]

\* the loop `for (k, v) in b.into_iter()` of the map/map arm: ks are the
\* entries of b still to visit; each visit writes merge(entry, v) back
MergeEntries(am, bm, ks) ==
    IF ks = {} THEN am
    ELSE LET k == CHOOSE x \in ks : TRUE
         IN MergeEntries(Put(am, k, merge(EntryOrNone(am, k), bm[k])), bm, ks \ {k})

\* a list/map arm that appends the values of the map, not the map
MergeListMapSpread(al, bv) ==
    IF DOMAIN bv.M = {} THEN al
    ELSE Append(al, bv.M[CHOOSE k \in DOMAIN bv.M : TRUE])

\* what the list/map arm does: a.extend([Value::Map(b)])
MergeListMap(al, bv) == Append(al, bv)

\* a list/list arm that skips the elements a already holds
MergeListListUnique(al, bl) ==
    al \o SelectSeq(bl, LAMBDA e : \A i \in 1..Len(al) : al[i] # e)

\* what the list/list arm does: a.extend(b)
MergeListList(al, bl) == al \o bl

\* a last arm that lets an absent incoming value keep the accumulator
MergeReplaceUnlessNone(av, bv) == IF IsNone(bv) THEN av ELSE bv

\* what the last arm does: *a = b
MergeReplace(av, bv) == bv

\* merge(a, b): the value `a` holds when the call returns
merge(av, bv) ==
    IF IsMap(av) /\ IsMap(bv) THEN MapV(MergeEntries(av.M, bv.M, DOMAIN bv.M))
    ELSE IF IsList(av) /\ IsList(bv) THEN ListV(MergeListList(av.L, bv.L))
    ELSE IF IsList(av) /\ IsMap(bv) THEN ListV(MergeListMap(av.L, bv))
    ELSE MergeReplace(av, bv)

----------------------------------------------------------------------------
(* The inputs merge is applied to.                                         *)

\* no watch loop was started
NoItem == [cfg |-> [ok |-> FALSE, inner |-> EmptyMap, files |-> <<>>], ver |-> 0]
WatchOff ==
    /\ events = <<>> /\ last = <<>> /\ elapsed = 0 /\ since = 0
    /\ wpc = "off" /\ item = NoItem /\ snapshot = NoItem /\ sigs = <<>>
    /\ handle = FALSE /\ lpc = "off" /\ lpos = 0 /\ view = 0

SeqsUpTo(S, n) == UNION {[1..k -> S] : k \in 0..n}
MapsOver(K, V) == UNION {[D -> V] : D \in SUBSET K}

Atoms == {IntV(1), IntV(2)}
Leaves == Atoms \cup {StrV("s"), None}
\* values one level deep: a list of atoms, or a map with key "x"
Level1 ==
    Leaves
    \cup {ListV(l) : l \in SeqsUpTo(Atoms, MaxLen)}
    \cup {MapV(m) : m \in MapsOver({"x"}, Atoms)}
\* lists that hold a map or a list as an element
MixedLists == {ListV(l) : l \in SeqsUpTo({IntV(1), MapV([x |-> IntV(1)])}, MaxLen)}
\* maps with keys "a", "b" and "c"; "a" holds any Level1 value
TopMaps ==
    {MapV(m) : m \in {f \in MapsOver({"a", "b", "c"}, Level1) :
                        /\ "b" \in DOMAIN f => f["b"] \in Atoms
                        /\ "c" \in DOMAIN f => f["c"] \in Atoms}}
MergeInputs == Level1 \cup MixedLists \cup TopMaps

MergeInit ==
    /\ a0 \in MergeInputs
    /\ a = a0
    /\ b \in MergeInputs
    /\ mpc = "call"
    /\ fs = [p \in {} |-> None]
    /\ gen = "none" /\ locators = <<>> /\ sorter = "none" /\ filter = "none"
    /\ dflt = "none"
    /\ cpc = "off" /\ concat = <<>> /\ located = <<>> /\ result = None
    /\ WatchOff

\* one call merge(&mut a, b)
Merge ==
    /\ mpc = "call"
    /\ a' = merge(a, b)
    /\ mpc' = "done"
    /\ UNCHANGED <<a0, b, fs, finderVars, callVars, watchVars>>

MergeIdle ==
    /\ a0 = None /\ a = None /\ b = None /\ mpc = "idle"

----------------------------------------------------------------------------
(* The merge rules, claim by claim.                                        *)

RECURSIVE MergedByRules(_, _, _)
\* r is what the case table of the merge engine gives for x and y
MergedByRules(x, y, r) ==
    IF IsMap(x) /\ IsMap(y) THEN
        /\ IsMap(r)
        /\ DOMAIN r.M = (DOMAIN x.M) \cup (DOMAIN y.M)
        /\ \A k \in DOMAIN r.M :
            IF k \notin DOMAIN y.M THEN r.M[k] = x.M[k]
            ELSE IF k \notin DOMAIN x.M THEN r.M[k] = y.M[k]
            ELSE MergedByRules(x.M[k], y.M[k], r.M[k])
    ELSE IF IsList(x) /\ IsList(y) THEN r = ListV(x.L \o y.L)
    ELSE IF IsList(x) /\ IsMap(y) THEN r = ListV(x.L \o <<y>>)
    ELSE r = y

\* C3: merge(a, b) of two maps leaves a a map over the union of the key
\* sets; a key only in a keeps its value, a key only in b gets b's value,
\* and a key in both holds the merge of the two values by the same rules.
C3_MapMapUnion ==
    (mpc = "done" /\ IsMap(a0) /\ IsMap(b)) =>
        /\ IsMap(a)
        /\ DOMAIN a.M = (DOMAIN a0.M) \cup (DOMAIN b.M)
        /\ \A k \in (DOMAIN a0.M) \ (DOMAIN b.M) : a.M[k] = a0.M[k]
        /\ \A k \in (DOMAIN b.M) \ (DOMAIN a0.M) : a.M[k] = b.M[k]
        /\ \A k \in (DOMAIN a0.M) \cap (DOMAIN b.M) :
                MergedByRules(a0.M[k], b.M[k], a.M[k])

\* two maps were merged that have a key each of their own and share a key
\* under which both hold a map
C3_Witness ==
    /\ mpc = "done" /\ IsMap(a0) /\ IsMap(b)
    /\ (DOMAIN a0.M) \ (DOMAIN b.M) # {}
    /\ (DOMAIN b.M) \ (DOMAIN a0.M) # {}
    /\ \E k \in (DOMAIN a0.M) \cap (DOMAIN b.M) :
            /\ IsMap(a0.M[k]) /\ IsMap(b.M[k])
            /\ a0.M[k] # b.M[k] /\ DOMAIN a0.M[k].M # {} /\ DOMAIN b.M[k].M # {}

\* C4: merge(a, b) of two lists leaves a as a's elements followed by b's,
\* in order, none removed: the length is the sum of the lengths.
C4_ListListConcat ==
    (mpc = "done" /\ IsList(a0) /\ IsList(b)) =>
        /\ IsList(a)
        /\ Len(a.L) = Len(a0.L) + Len(b.L)
        /\ \A i \in 1..Len(a0.L) : a.L[i] = a0.L[i]
        /\ \A j \in 1..Len(b.L) : a.L[Len(a0.L) + j] = b.L[j]

\* two non-empty lists that share an element were merged
C4_Witness ==
    /\ mpc = "done" /\ IsList(a0) /\ IsList(b)
    /\ Len(a0.L) = MaxLen /\ Len(b.L) >= 1
    /\ \E i \in 1..Len(a0.L) : \E j \in 1..Len(b.L) : a0.L[i] = b.L[j]

\* C5: merge(a, b) of a list a and a map b leaves a as the same list with
\* one element more at its end, the whole map b.
C5_ListMapAppend ==
    (mpc = "done" /\ IsList(a0) /\ IsMap(b)) =>
        /\ IsList(a)
        /\ Len(a.L) = Len(a0.L) + 1
        /\ \A i \in 1..Len(a0.L) : a.L[i] = a0.L[i]
        /\ a.L[Len(a.L)] = b

\* a map with an entry was merged into a non-empty list
C5_Witness ==
    /\ mpc = "done" /\ IsList(a0) /\ IsMap(b)
    /\ Len(a0.L) >= 1 /\ DOMAIN b.M # {}

\* the pairs that are not map/map, list/list or list/map
OtherPair(x, y) ==
    ~(IsMap(x) /\ IsMap(y)) /\ ~(IsList(x) /\ IsList(y)) /\ ~(IsList(x) /\ IsMap(y))

\* C6: for every other pair, merge(a, b) leaves a equal to b.
C6_OtherPairsReplace ==
    (mpc = "done" /\ OtherPair(a0, b)) => a = b

\* a map was merged with an absent value, which replaced it
C6_Witness ==
    /\ mpc = "done" /\ IsMap(a0) /\ DOMAIN a0.M # {} /\ IsNone(b) /\ a = None

RECURSIVE DisjointLeaves(_, _)
\* x and y are maps, and every key path present in both holds a map on
\* both sides
DisjointLeaves(x, y) ==
    /\ IsMap(x) /\ IsMap(y)
    /\ \A k \in (DOMAIN x.M) \cap (DOMAIN y.M) : DisjointLeaves(x.M[k], y.M[k])

\* x and y are different scalars
DifferentScalars(x, y) == IsScalar(x) /\ IsScalar(y) /\ x # y
\* x and y are non-empty different lists
DifferentLists(x, y) ==
    IsList(x) /\ IsList(y) /\ x.L # <<>> /\ y.L # <<>> /\ x # y
\* x and y are lists that give another list when joined the other way round
OrderedLists(x, y) == IsList(x) /\ IsList(y) /\ x.L \o y.L # y.L \o x.L

\* the two merge orders of the maps a0 and b agree
Commutes == a = merge(b, a0)

\* C27 as stated: merge(A, B) = merge(B, A) for two maps in which every key
\* path present in both holds a map on both sides, and the two orders give
\* different results for two maps that hold different scalars, or non-empty
\* different lists, at the same key.
C27_CommutesIffDisjoint ==
    (mpc = "done" /\ IsMap(a0) /\ IsMap(b)) =>
        /\ DisjointLeaves(a0, b) => Commutes
        /\ (\E k \in (DOMAIN a0.M) \cap (DOMAIN b.M) :
                \/ DifferentScalars(a0.M[k], b.M[k])
                \/ DifferentLists(a0.M[k], b.M[k])) => ~Commutes

\* C27, amended: merge(A, B) = merge(B, A) for two maps in which every key
\* path present in both holds a map on both sides, and the two orders give
\* different results for two maps that hold, at the same key, different
\* scalars or two lists whose concatenation depends on the order.
C27_CommutesIffDisjointOrdered ==
    (mpc = "done" /\ IsMap(a0) /\ IsMap(b)) =>
        /\ DisjointLeaves(a0, b) => Commutes
        /\ (\E k \in (DOMAIN a0.M) \cap (DOMAIN b.M) :
                \/ DifferentScalars(a0.M[k], b.M[k])
                \/ OrderedLists(a0.M[k], b.M[k])) => ~Commutes

\* two maps were merged that share a key holding maps with different keys,
\* and have a key each of their own
C27_Witness ==
    /\ mpc = "done" /\ DisjointLeaves(a0, b)
    /\ (DOMAIN a0.M) \ (DOMAIN b.M) # {}
    /\ (DOMAIN b.M) \ (DOMAIN a0.M) # {}
    /\ \E k \in (DOMAIN a0.M) \cap (DOMAIN b.M) : a0.M[k] # b.M[k]
    /\ a = merge(b, a0)

\* two maps were merged that hold the lists [1] and [1, 1] at the same key
C27_SameConcatenation ==
    /\ mpc = "done" /\ IsMap(a0) /\ IsMap(b)
    /\ \E k \in (DOMAIN a0.M) \cap (DOMAIN b.M) :
            /\ DifferentLists(a0.M[k], b.M[k])
            /\ ~OrderedLists(a0.M[k], b.M[k])

----------------------------------------------------------------------------
(* Paths and the filesystem.  A path is the sequence of its components     *)
(* below the common parent directory; a file is <<directory, file name>>.  *)
(* Directories 4 and 5 exist, directory 6 does not.  File names 1 and 2    *)
(* are configuration files ("a.json", "b.json"); name 3 is a file with an  *)
(* extension no decoder is registered for ("c.txt"), which no glob of the  *)
(* finders matches and which a finder of literal names may name.  A       *)
(* filesystem may also hold, in directory 5, a subdirectory named like a   *)
(* configuration file ("b.json"), with a file "a.json" inside.             *)

TopDir == <<>>
DirD == <<4>>
DirE == <<5>>
MissingDir == <<6>>
SubDir == <<5, 2>>
PathDeep == <<5, 2, 1>>

\* what the path of a directory holds
DirMark == [D |-> 0]

\* the directories that exist: the three every filesystem has, and the
\* subdirectory where the filesystem holds it
ExistingDirs ==
    {TopDir, DirD, DirE}
    \cup (IF SubDir \in DOMAIN fs /\ fs[SubDir] = DirMark THEN {SubDir} ELSE {})

PathA1 == <<4, 1>>
PathB1 == <<4, 2>>
PathA2 == <<5, 1>>
PathN2 == <<5, 3>>
AllPaths == {PathA1, PathB1, PathA2, PathN2}

\* an Err(..) item in the output of a locator or of files()
ErrItem == <<0>>

\* what a path holds: nothing, bytes no decoder accepts, or bytes that
\* decode to a top-level map
Absent == [A |-> 0]
Bad == [B |-> 0]
FileMaps ==
    { [x |-> IntV(1)],
      [x |-> IntV(2), y |-> IntV(3)],
      [x |-> ListV(<<IntV(1)>>)] }
Contents == {Bad} \cup {MapV(m) : m \in FileMaps}

\* Ord::cmp on integers (one path component against another)
IntCmp(i, j) == IF i < j THEN "Less" ELSE IF i > j THEN "Greater" ELSE "Equal"

RECURSIVE PathCmp(_, _)
\* PathBuf::cmp: lexicographic over the components
PathCmp(p, q) ==
    IF p = <<>> /\ q = <<>> THEN "Equal"
    ELSE IF p = <<>> THEN "Less"
    ELSE IF q = <<>> THEN "Greater"
    ELSE IF IntCmp(Head(p), Head(q)) # "Equal" THEN IntCmp(Head(p), Head(q))
    ELSE PathCmp(Tail(p), Tail(q))

\* Path::file_name
FileName(p) == p[Len(p)]
\* Path::parent
Parent(p) == SubSeq(p, 1, Len(p) - 1)

\* glob::Pattern::matches_path on a file name: a compiled pattern is the
\* set of file names it matches
Matches(pat, name) == name \in pat
MatchesAny(pats, name) == \E i \in 1..Len(pats) : Matches(pats[i], name)

IsDir(e) == e \in ExistingDirs

\* the entries of directory d in filesystem f: its files and its
\* subdirectories
Entries(f, d) ==
    {p \in DOMAIN f : f[p] \notin {Absent, DirMark} /\ Parent(p) = d}
    \cup {e \in ExistingDirs : e # <<>> /\ Parent(e) = d}

Perms(S) == {s \in [1..Cardinality(S) -> S] : \A i, j \in DOMAIN s : i # j => s[i] # s[j]}

\* the orders read_dir may list every directory in
Orders(f) ==
    {[d \in ExistingDirs |-> IF d = TopDir THEN t ELSE IF d = DirD THEN x
                             ELSE IF d = DirE THEN y ELSE z] :
        t \in Perms(Entries(f, TopDir)),
        x \in Perms(Entries(f, DirD)),
        y \in Perms(Entries(f, DirE)),
        z \in Perms(Entries(f, SubDir))}

----------------------------------------------------------------------------
(* Locators.  A locator is [kind, root, depth]; pats is the sequence of    *)
(* compiled patterns; ord gives the order read_dir lists each directory    *)
(* in.  The output is a sequence of items: paths, or ErrItem.              *)

RECURSIVE Flatten(_)
Flatten(ss) == IF ss = <<>> THEN <<>> ELSE Head(ss) \o Flatten(Tail(ss))

\* the inner iterator of DirLocatorIter::next: the entry's path once for
\* every pattern that matches its file name
EntryMatches3(e, pats) ==
    LET hits == SelectSeq(pats, LAMBDA pat : Matches(pat, FileName(e)))
    IN [i \in 1..Len(hits) |-> e]

\* DirLocatorIter (flattened): directories are skipped
DirIter3(ents, pats) ==
    Flatten([i \in 1..Len(ents) |->
        IF IsDir(ents[i]) THEN <<>> ELSE EntryMatches3(ents[i], pats)])

\* DirLocator::locate of locator/dir_locator.rs: Err when read_dir fails
DirLocate3(root, pats, ord) ==
    IF root \notin ExistingDirs THEN <<ErrItem>> ELSE DirIter3(ord[root], pats)

RECURSIVE WalkDir(_, _, _, _)
\* walkdir::WalkDir::new(root).max_depth(maxd), the entries under a
\* directory whose own entries are ents, at depth d: depth first, in
\* read_dir order, nothing deeper than maxd
WalkDir(ents, d, maxd, ord) ==
    IF ents = <<>> \/ d > maxd THEN <<>>
    ELSE <<Head(ents)>>
         \o (IF IsDir(Head(ents)) THEN WalkDir(ord[Head(ents)], d + 1, maxd, ord) ELSE <<>>)
         \o WalkDir(Tail(ents), d, maxd, ord)

\* a walk that does not pass its depth on to WalkDir
DirWalkLocateAll(root, depth, pats, ord) ==
    IF root \notin ExistingDirs THEN <<>>
    ELSE SelectSeq(WalkDir(ord[root], 1, 3, ord),
                   LAMBDA e : ~IsDir(e) /\ MatchesAny(pats, FileName(e)))

\* DirWalkLocator::locate of locator/dir_walk_locator.rs: the walk's
\* errors are dropped, regular files whose name matches a pattern are kept
DirWalkLocate3(root, depth, pats, ord) ==
    IF root \notin ExistingDirs THEN <<>>
    ELSE SelectSeq(WalkDir(ord[root], 1, depth, ord),
                   LAMBDA e : ~IsDir(e) /\ MatchesAny(pats, FileName(e)))

\* DirLocator::locate of src2/locator.rs and locator.rs: every entry whose
\* file name matches a pattern, once (break after the first match)
DirLocate2(root, pats, ord) ==
    IF root \notin ExistingDirs THEN <<ErrItem>>
    ELSE SelectSeq(ord[root], LAMBDA e : MatchesAny(pats, FileName(e)))

\* after an item of the stream of src2's WalkDirLocator: the stream yields
\* that item again and again, and never ends
Again == <<9>>

Min(S) == CHOOSE n \in S : \A m \in S : n <= m

RECURSIVE WalkReadDir2(_, _, _, _, _)
\* WalkDirLocator::read_dir of src2/locator.rs.  Both `while let` loops
\* call locate / read_dir anew for every iteration and take the first item
\* of the new stream: a stream that has a first item yields it for ever.
WalkReadDir2(path, depth, selfDepth, pats, ord) ==
    LET here == DirLocate2(path, pats, ord)
    IN IF here # <<>>
       THEN IF here[1] = ErrItem THEN <<ErrItem>> ELSE <<here[1], Again>>
       ELSE IF ~(selfDepth = 0 \/ depth < selfDepth) THEN <<>>
       ELSE LET subs == [i \in 1..Len(ord[path]) |->
                            IF IsDir(ord[path][i])
                            THEN WalkReadDir2(ord[path][i], depth + 1, selfDepth, pats, ord)
                            ELSE <<>>]
                full == {i \in 1..Len(subs) : subs[i] # <<>>}
            IN IF full = {} THEN <<>>
               ELSE IF subs[Min(full)][1] = ErrItem THEN <<ErrItem>>
               ELSE <<subs[Min(full)][1], Again>>

\* a literal search name of lib.rs: the one name the pattern stands for
NameOf(pat) == CHOOSE n \in pat : TRUE

\* path.exists() && !path.is_dir()
ExistsFile(f, p) == p \in DOMAIN f /\ f[p] \notin {Absent, DirMark}

\* DirLocator::locate of lib.rs: root.join(name) for every search name
DirLocate1(f, root, pats) ==
    LET cands == [i \in 1..Len(pats) |-> Append(root, NameOf(pats[i]))]
    IN SelectSeq(cands, LAMBDA p : ExistsFile(f, p))

RECURSIVE WalkReadDir1(_, _, _, _, _, _)
\* WalkDirLocator::read_dir of lib.rs: the output vector, or <<ErrItem>>
\* when a read_dir failed
WalkReadDir1(f, path, depth, selfDepth, pats, ord) ==
    LET here == DirLocate1(f, path, pats)
    IN IF ~(selfDepth = 0 \/ depth < selfDepth) THEN here
       ELSE IF path \notin ExistingDirs THEN <<ErrItem>>
       ELSE LET subs == Flatten([i \in 1..Len(ord[path]) |->
                            IF IsDir(ord[path][i])
                            THEN WalkReadDir1(f, ord[path][i], depth + 1, selfDepth, pats, ord)
                            ELSE <<>>])
            IN IF \E i \in 1..Len(subs) : subs[i] = ErrItem
               THEN <<ErrItem>> ELSE here \o subs

\* Locator::locate, by generation of the crate ("v3": builder/ and
\* locator/, "v2": builder.rs and src2/locator.rs, "v1": config.rs, find.rs
\* and the locators of lib.rs).
Locate(v, f, loc, pats, ord) ==
    IF v = "v3" THEN
        IF loc.kind = "dir" THEN DirLocate3(loc.root, pats, ord)
        ELSE DirWalkLocate3(loc.root, loc.depth, pats, ord)
    ELSE IF v = "v2" THEN
        IF loc.kind = "dir" THEN DirLocate2(loc.root, pats, ord)
        ELSE WalkReadDir2(loc.root, 0, loc.depth, pats, ord)
    ELSE
        IF loc.kind = "dir" THEN DirLocate1(f, loc.root, pats)
        ELSE WalkReadDir1(f, loc.root, 0, loc.depth, pats, ord)

----------------------------------------------------------------------------
(* ConfigFinder: files(), config_files(), config().                        *)

\* a files() that forgets to deduplicate
DedupNothing(items, seen) == items

RECURSIVE Dedup(_, _)
\* the filter_map over `seen`: a path passes the first time it is seen; an
\* Err item passes always
Dedup(items, seen) ==
    IF items = <<>> THEN <<>>
    ELSE IF Head(items) = ErrItem THEN <<ErrItem>> \o Dedup(Tail(items), seen)
    ELSE IF Head(items) \in seen THEN Dedup(Tail(items), seen)
    ELSE <<Head(items)>> \o Dedup(Tail(items), seen \cup {Head(items)})

\* the concatenation of the locators' results, in registration order, that
\* find_files deduplicates; builder/builder.rs drops a locator whose
\* locate returned Err
Located(v, f, locs, pats, ord) ==
    Flatten([i \in 1..Len(locs) |->
        LET r == Locate(v, f, locs[i], pats, ord)
        IN IF v = "v3" /\ r = <<ErrItem>> THEN <<>> ELSE r])

\* find_files of builder/builder.rs and builder.rs, ConfigFinder::files of
\* find.rs
find_files(v, f, locs, pats, ord) == Dedup(Located(v, f, locs, pats, ord), {})

\* ConfigFinder::files: builder.rs drops the Err items of find_files
files(v, f, locs, pats, ord) ==
    IF v = "v2"
    THEN SelectSeq(find_files(v, f, locs, pats, ord), LAMBDA x : x # ErrItem)
    ELSE find_files(v, f, locs, pats, ord)

\* the path filter predicate: "none" is no filter, "dirD" accepts the
\* files of directory 4 only
FilterAccepts(flt, p) == flt = "none" \/ Parent(p) = DirD

\* the extensions of the registered encoders contain the path's extension
HasDecoder(p) == FileName(p) # 3

\* Loader::load: the encoder of the extension decodes the bytes;
\* `.expect("loader")` panics when no encoder has the extension
LoaderLoad(p, bytes) ==
    IF ~HasDecoder(p)
    THEN [ok |-> FALSE, panic |-> TRUE, config |-> EmptyMap, path |-> p]
    ELSE IF bytes = Bad
    THEN [ok |-> FALSE, panic |-> FALSE, config |-> EmptyMap, path |-> p]
    ELSE [ok |-> TRUE, panic |-> FALSE, config |-> bytes.M, path |-> p]

\* one item of config_files: read the file, then decode it
LoadFile(v, f, p) ==
    IF p = ErrItem \/ f[p] \in {Absent, DirMark}
    THEN [ok |-> FALSE, panic |-> FALSE, config |-> EmptyMap, path |-> p]
    ELSE LoaderLoad(p, f[p])

\* config_files: the located paths that pass the filter, each loaded
config_files(v, f, flt, paths) ==
    LET kept == IF v = "v1" THEN paths
                ELSE SelectSeq(paths, LAMBDA p : FilterAccepts(flt, p))
    IN [i \in 1..Len(kept) |-> LoadFile(v, f, kept[i])]

\* the comparators a builder is given: "asc" is |a, b| a.cmp(b), "desc" is
\* |a, b| b.cmp(a), "name" compares the file names only
SortCmp(srt, p, q) ==
    IF srt = "desc" THEN PathCmp(q, p)
    ELSE IF srt = "name" THEN IntCmp(FileName(p), FileName(q))
    ELSE PathCmp(p, q)

RECURSIVE InsertStable(_, _, _)
\* x goes before the first element that compares Greater than it
InsertStable(srt, sorted, x) ==
    IF sorted = <<>> THEN <<x>>
    ELSE IF SortCmp(srt, Head(sorted).path, x.path) = "Greater" THEN <<x>> \o sorted
    ELSE <<Head(sorted)>> \o InsertStable(srt, Tail(sorted), x)

RECURSIVE SortBy(_, _)
\* Vec::sort_by: a stable sort
SortBy(srt, cfs) ==
    IF cfs = <<>> THEN <<>>
    ELSE InsertStable(srt, SortBy(srt, SubSeq(cfs, 1, Len(cfs) - 1)), cfs[Len(cfs)])

\* the order config() puts the decoded files in: builder/builder.rs sorts
\* by the sorter or by path, builder.rs always by path, config.rs only
\* when a sorter is set
SortConfigs(v, srt, cfs) ==
    IF v = "v3" THEN (IF srt = "none" THEN SortBy("asc", cfs) ELSE SortBy(srt, cfs))
    ELSE IF v = "v2" THEN SortBy("asc", cfs)
    ELSE (IF srt = "none" THEN cfs ELSE SortBy(srt, cfs))

\* a merge_config in which the first file to define a key wins
MergeKeyFirstWins(config, key, value) ==
    IF key \notin DOMAIN config THEN Put(config, key, value) ELSE config

\* one entry of a file in merge_config: insert when the key is new, merge
\* into the value held otherwise
MergeKey(config, key, value) ==
    IF key \notin DOMAIN config THEN Put(config, key, value)
    ELSE Put(config, key, merge(config[key], value))

RECURSIVE MergeFile(_, _, _)
\* the loop `for (key, value) in file.config.into_iter()`
MergeFile(config, fm, ks) ==
    IF ks = {} THEN config
    ELSE LET k == CHOOSE x \in ks : TRUE
         IN MergeFile(MergeKey(config, k, fm[k]), fm, ks \ {k})

RECURSIVE merge_config(_, _)
\* the loop `for file in files.into_iter()`
merge_config(config, cfs) ==
    IF cfs = <<>> THEN config
    ELSE merge_config(MergeFile(config, Head(cfs).config, DOMAIN Head(cfs).config), Tail(cfs))

\* a config() that does not run the default initializer
SeedNothing(v, dfl) == EmptyMap

\* what the default initializer leaves in Config::default()
SeedMap == [x |-> ListV(<<IntV(7)>>), z |-> IntV(9)]
Seed(v, dfl) == IF v = "v3" /\ dfl = "seed" THEN SeedMap ELSE EmptyMap

\* Err(..) as the result of config(); Config::default() has the same fields
ConfigErr == [ok |-> FALSE, inner |-> EmptyMap, files |-> <<>>]
ConfigDefault == [ok |-> TRUE, inner |-> EmptyMap, files |-> <<>>]

\* config() did not return: the thread panicked
ConfigPanic == [ok |-> FALSE, inner |-> EmptyMap, files |-> <<"panic">>]

\* the index of the first item that is not Ok(..)
FirstFailure(loaded) ==
    CHOOSE i \in 1..Len(loaded) :
        ~loaded[i].ok /\ \A j \in 1..(i - 1) : loaded[j].ok

\* ConfigFinder::config (ConfigBuilder::build_with in config.rs), given the
\* output of files()
config(v, f, flt, srt, dfl, paths) ==
    LET loaded == config_files(v, f, flt, paths)
    IN IF \E i \in 1..Len(loaded) : ~loaded[i].ok
       THEN IF loaded[FirstFailure(loaded)].panic THEN ConfigPanic ELSE ConfigErr
       ELSE LET configs == SortConfigs(v, srt, loaded)
            IN [ok |-> TRUE,
                inner |-> merge_config(Seed(v, dfl), configs),
                files |-> [i \in 1..Len(configs) |-> configs[i].path]]

\* one item of the inner stream of load_all2: the loader of the path's
\* extension is looked up first (`.expect("loader")`), then the file is
\* read and decoded
LoadItem(f, p) ==
    IF ~HasDecoder(p)
    THEN [ok |-> FALSE, panic |-> TRUE, config |-> EmptyMap, path |-> p]
    ELSE IF f[p] \in {Absent, Bad}
    THEN [ok |-> FALSE, panic |-> FALSE, config |-> EmptyMap, path |-> p]
    ELSE [ok |-> TRUE, panic |-> FALSE, config |-> f[p].M, path |-> p]

\* Config::load_all2 of lib.rs: per search path, the Err of its locate or
\* the items of the files it located; try_flatten passes an Err on and
\* goes on with the next search path
load_all2(f, locs, pats, ord) ==
    Flatten([i \in 1..Len(locs) |->
        LET r == Locate("v1", f, locs[i], pats, ord)
        IN IF r = <<ErrItem>>
           THEN <<[ok |-> FALSE, panic |-> FALSE, config |-> EmptyMap, path |-> ErrItem]>>
           ELSE [j \in 1..Len(r) |-> LoadItem(f, r[j])]])

\* Config::load_all: with ignore_errors the Err items are filtered out and
\* the rest collected; without, try_collect stops at the first Err.  The
\* stream is driven item by item, so a panicking item ends the call when
\* it is reached.
load_all(ignore_errors, items) ==
    IF ignore_errors
    THEN IF \E i \in 1..Len(items) : items[i].panic
         THEN [ok |-> FALSE, panic |-> TRUE, ignore |-> TRUE, loaded |-> <<>>]
         ELSE [ok |-> TRUE, panic |-> FALSE, ignore |-> TRUE,
               loaded |-> SelectSeq(items, LAMBDA it : it.ok)]
    ELSE IF \A i \in 1..Len(items) : items[i].ok
         THEN [ok |-> TRUE, panic |-> FALSE, ignore |-> FALSE, loaded |-> items]
         ELSE [ok |-> FALSE, panic |-> items[FirstFailure(items)].panic,
               ignore |-> FALSE, loaded |-> <<>>]

----------------------------------------------------------------------------
(* The finders and filesystems a call is made on.                          *)

DirLoc(root) == [kind |-> "dir", root |-> root, depth |-> 0]
WalkLoc(root, depth) == [kind |-> "walk", root |-> root, depth |-> depth]

\* the compiled patterns: two globs ("*.json", "a.*") for the globbing
\* generations, three literal names for lib.rs's locators
Patterns(v) == IF v = "v1" THEN <<{1}, {2}, {3}>> ELSE <<{1, 2}, {1}>>

LocatorLists(v) ==
    {<<DirLoc(DirD), DirLoc(DirE)>>, <<DirLoc(DirE), DirLoc(DirD)>>}
    \cup (IF v = "v1" THEN {<<WalkLoc(TopDir, 0), DirLoc(DirD)>>,
                            <<WalkLoc(MissingDir, 0), DirLoc(DirD)>>}
          ELSE {<<DirLoc(MissingDir), DirLoc(DirD)>>})
    \cup (IF v = "v3" THEN {<<WalkLoc(TopDir, 2), DirLoc(DirD)>>} ELSE {})

Filesystems ==
    {f \in [AllPaths -> Contents \cup {Absent}] :
        /\ f[PathN2] \in {Absent, Bad}
        /\ Cardinality({p \in AllPaths : f[p] # Absent}) <= MaxFiles}

NoResult == [ok |-> FALSE, inner |-> EmptyMap, files |-> <<"none">>]

FinderInit ==
    /\ gen \in {"v1", "v2", "v3"}
    /\ locators \in LocatorLists(gen)
    /\ sorter \in {"none", "asc", "desc", "name"}
    /\ filter \in (IF gen = "v1" THEN {"none"} ELSE {"none", "dirD"})
    /\ dflt \in (IF gen = "v3" THEN {"none", "seed"} ELSE {"none"})

ConfigInit ==
    /\ MergeIdle
    /\ fs \in Filesystems
    /\ FinderInit
    /\ cpc = "idle" /\ concat = <<>> /\ located = <<>> /\ result = NoResult
    /\ WatchOff

\* a caller runs finder.files() to its end
CallFiles ==
    /\ cpc = "idle"
    /\ \E ord \in Orders(fs) :
        /\ concat' = Located(gen, fs, locators, Patterns(gen), ord)
        /\ located' = files(gen, fs, locators, Patterns(gen), ord)
    /\ cpc' = "files"
    /\ UNCHANGED <<mergeVars, fs, finderVars, result, watchVars>>

\* a caller runs finder.config()
CallConfig ==
    /\ cpc = "idle"
    /\ \E ord \in Orders(fs) :
        /\ concat' = Located(gen, fs, locators, Patterns(gen), ord)
        /\ located' = files(gen, fs, locators, Patterns(gen), ord)
        /\ result' = config(gen, fs, filter, sorter, dflt, located')
    /\ cpc' = "config"
    /\ UNCHANGED <<mergeVars, fs, finderVars, watchVars>>

\* a caller runs load_all(ignore_errors) on a Config of lib.rs
CallLoadAll ==
    /\ cpc = "idle"
    /\ gen = "v1"
    /\ \E ignore_errors \in BOOLEAN, ord \in Orders(fs) :
        /\ concat' = Located(gen, fs, locators, Patterns(gen), ord)
        /\ result' = load_all(ignore_errors,
                              load_all2(fs, locators, Patterns(gen), ord))
    /\ located' = <<>>
    /\ cpc' = "load_all"
    /\ UNCHANGED <<mergeVars, fs, finderVars, watchVars>>

----------------------------------------------------------------------------
(* The pipeline, claim by claim.                                           *)

Range(q) == {q[i] : i \in 1..Len(q)}
NoDuplicates(q) == \A i, j \in 1..Len(q) : i # j => q[i] # q[j]
PathsOf(items) == SelectSeq(items, LAMBDA x : x # ErrItem)
\* where x first occurs in q
FirstIndex(q, x) == CHOOSE i \in 1..Len(q) : q[i] = x /\ \A j \in 1..(i - 1) : q[j] # x
Max(S) == CHOOSE n \in S : \A m \in S : m <= n

\* the indexes of the files of the provenance list F whose map defines k
Definers(F, k) == {i \in 1..Len(F) : k \in DOMAIN fs[F[i]].M}

\* C1: config() merges the decoded files in order: a key whose values are
\* scalars holds the value of the last file of the provenance list that
\* defines it, a key that one file alone defines holds that file's value,
\* and the provenance list is exactly the decoded files, each once, in
\* that order (ascending by path for the default ordering).
C1_LastFileWins ==
    (cpc = "config" /\ result.ok) =>
        LET F == result.files IN
        /\ NoDuplicates(F)
        /\ Range(F) = {p \in Range(PathsOf(located)) :
                          gen = "v1" \/ FilterAccepts(filter, p)}
        /\ (gen = "v3" /\ sorter = "none") =>
                \A i, j \in 1..Len(F) : i < j => PathCmp(F[i], F[j]) = "Less"
        /\ \A k \in {"x", "y", "z"} :
            LET defs == Definers(F, k) IN
            defs # {} =>
                /\ k \in DOMAIN result.inner
                /\ (\A i \in defs : IsScalar(fs[F[i]].M[k])) =>
                        result.inner[k] = fs[F[Max(defs)]].M[k]
                /\ (Cardinality(defs) = 1 /\ k \notin DOMAIN Seed(gen, dflt)) =>
                        result.inner[k] = fs[F[Max(defs)]].M[k]

\* a.json = {x: 1} and b.json = {x: 2, y: 3} gave {x: 2, y: 3} with
\* provenance [a.json, b.json]
C1_Witness ==
    /\ cpc = "config" /\ result.ok /\ gen = "v3"
    /\ fs[PathA1] = MapV([x |-> IntV(1)])
    /\ fs[PathB1] = MapV([x |-> IntV(2), y |-> IntV(3)])
    /\ result.files = <<PathA1, PathB1>>
    /\ result.inner = [x |-> IntV(2), y |-> IntV(3)]

\* C2: files() yields every located path exactly once, at the position of
\* its first occurrence in the concatenation of the locators' results.
C2_FilesDedupFirstWins ==
    (cpc \in {"files", "config"}) =>
        LET out == PathsOf(located)
            all == PathsOf(concat) IN
        /\ Range(out) = Range(all)
        /\ NoDuplicates(out)
        /\ \A i, j \in 1..Len(out) :
                i < j => FirstIndex(all, out[i]) < FirstIndex(all, out[j])

\* files() ran over results in which one locator gave a path that an
\* earlier locator had given, and gave it twice
C2_Witness ==
    /\ cpc = "files"
    /\ \E i, j \in 1..Len(concat) :
            /\ i + 1 < j /\ j < Len(concat)
            /\ concat[i] = concat[j] /\ concat[j] = concat[j + 1]
    /\ Len(located) >= 2
    /\ Len(located) < Len(concat)

\* the comparator config() is to order the files by
Effective(srt) == IF srt = "none" THEN "asc" ELSE srt

\* C7 (as claimed): for a fixed filesystem, config() returns the same
\* Config whatever order the directories are listed in, and the order it
\* merges in is that of the path comparator, the lexicographic one when
\* none was configured.  Comparators that leave two different paths Equal
\* are left out.
C7_OrderIndependent ==
    (cpc = "config" /\ sorter # "name") =>
        /\ \A ord \in Orders(fs) :
            config(gen, fs, filter, sorter, dflt,
                   files(gen, fs, locators, Patterns(gen), ord)) = result
        /\ (result.ok /\ sorter = "none") =>
            \A i, j \in 1..Len(result.files) :
                i < j => PathCmp(result.files[i], result.files[j]) = "Less"

\* C8 (as claimed): config() merges in the order of the comparator given
\* to with_sorting, and in ascending path order when none was given.
C8_ComparatorOrder ==
    (cpc = "config" /\ result.ok /\ gen \in {"v2", "v3"}) =>
        \A i, j \in 1..Len(result.files) :
            i < j => SortCmp(Effective(sorter), result.files[i], result.files[j]) # "Greater"

\* the located files that pass the filter and whose read or decode fails,
\* or whose extension has no decoder
FailingFiles ==
    {i \in 1..Len(located) :
        /\ located[i] # ErrItem
        /\ gen = "v1" \/ FilterAccepts(filter, located[i])
        /\ \/ fs[located[i]] \in {Absent, Bad}
           \/ ~HasDecoder(located[i])}

\* C18 (as claimed): in strict mode, when a located file that passed the
\* filter cannot be read or decoded, or has no decoder for its extension,
\* config() returns an error value: no Config, and no panic.
C18_StrictModeReturnsError ==
    (cpc = "config" /\ FailingFiles # {}) => result = ConfigErr

\* a located file that load_all can read and decode
Loadable(p) == p # ErrItem /\ HasDecoder(p) /\ fs[p] \notin {Absent, Bad}

\* C19 (as claimed): load_all(true) returns no error but exactly the located
\* files that could be read and decoded, with what they decode to, in
\* locator order; load_all(false) returns an error when a located file
\* fails and all the located files when none does.
C19_LoadAll ==
    (cpc = "load_all") =>
        LET paths == SelectSeq(concat, LAMBDA p : p # ErrItem)
            good == SelectSeq(paths, Loadable)
        IN IF result.ignore
           THEN /\ result.ok
                /\ Len(result.loaded) = Len(good)
                /\ \A i \in 1..Len(good) :
                     /\ result.loaded[i].path = good[i]
                     /\ result.loaded[i].config = fs[good[i]].M
           ELSE /\ ~result.panic
                /\ (good # paths) => ~result.ok
                /\ (good = concat) =>
                     /\ result.ok
                     /\ [i \in 1..Len(result.loaded) |-> result.loaded[i].path] = paths

\* C20 (as claimed): when the root of one of the finder's locators cannot
\* be read, files() yields an error item and config() returns an error:
\* the locator is never passed over as if it had matched no file.
C20_UnreadableRootSurfaced ==
    (/\ cpc \in {"files", "config"}
     /\ \E i \in 1..Len(locators) : locators[i].root = MissingDir)
        => /\ \E i \in 1..Len(located) : located[i] = ErrItem
           /\ (cpc = "config") => ~result.ok

RECURSIVE FoldKey(_, _, _)
\* the value of key k after the files F[i..] are folded, in order, onto
\* acc: <<>> while no value is held, <<value>> after
FoldKey(acc, k, F) ==
    IF F = <<>> THEN acc
    ELSE LET m == fs[Head(F)].M
             next == IF k \notin DOMAIN m THEN acc
                     ELSE IF acc = <<>> THEN <<m[k]>>
                     ELSE <<merge(acc[1], m[k])>>
         IN FoldKey(next, k, Tail(F))

\* C26: with a default initializer, config() is the fold of the sorted
\* files onto the initializer's map: a key of the seed that no file sets
\* keeps the seed's value, a key set by the seed and by files holds the
\* seed's value merged with the files' values in order, and the provenance
\* lists the files alone; without an initializer the fold starts empty.
C26_SeedFoldedFirst ==
    (cpc = "config" /\ result.ok /\ gen = "v3") =>
        LET F == result.files
            S == IF dflt = "seed" THEN SeedMap ELSE EmptyMap
            fileKeys == UNION {DOMAIN fs[F[i]].M : i \in 1..Len(F)}
        IN /\ DOMAIN result.inner = DOMAIN S \cup fileKeys
           /\ \A k \in DOMAIN result.inner :
                <<result.inner[k]>> =
                    FoldKey(IF k \in DOMAIN S THEN <<S[k]>> ELSE <<>>, k, F)
           /\ \A k \in DOMAIN S \ fileKeys : result.inner[k] = S[k]
           /\ \A i \in 1..Len(F) : F[i] \in AllPaths /\ fs[F[i]] # Absent
           /\ NoDuplicates(F)

\* a seeded config() of one file {x: [1]}: key z comes from the seed
\* alone, key x holds the seed's list with the file's list appended
C26_Witness ==
    /\ cpc = "config" /\ result.ok /\ gen = "v3" /\ dflt = "seed"
    /\ Len(result.files) = 1
    /\ result.inner = [x |-> ListV(<<IntV(7), IntV(1)>>), z |-> IntV(9)]

----------------------------------------------------------------------------
(* The watch loop: watch() and the task WatchableConfig::new spawns.       *)

\* `Duration::from_millis(500)`: the debounce window
DebounceMs == 500
\* `broadcast(10)`: the capacity of the signal channel
BroadcastCap == 10

\* the file the behaviours of the watch loop rewrite
WatchedFile == PathB1

\* notify::Event, and the Err(..) the watcher may send in its place
Event(kind, paths) == [err |-> FALSE, kind |-> kind, paths |-> paths]
ErrEvent == [err |-> TRUE, kind |-> "error", paths |-> <<>>]
WatchEvents ==
    { Event("modify", <<WatchedFile>>),
      Event("access", <<WatchedFile>>),
      Event("modify", <<PathN2>>),
      ErrEvent }

\* ConfigFinder::matches: the file name against every compiled pattern
matches(pats, path) == MatchesAny(pats, FileName(path))
\* a finder for which every event is about a configuration file
matche_anything(pats, paths) == TRUE

\* ConfigFinder::matche_any
matche_any(pats, paths) == \E i \in 1..Len(paths) : matches(pats, paths[i])

\* the debounce test of watch(): the event equals `last` and less than the
\* window has passed since `last_time`
Debounced(lst, el, ev) == lst # <<>> /\ lst[1] = ev /\ el < DebounceMs

\* `EventKind::Create(_) | EventKind::Modify(_) | EventKind::Remove(_)`
RelevantKind(kind) == kind \in {"create", "modify", "remove"}

\* a task that stores the result of a failed reload as well
AcceptsAnything(it) == TRUE

\* `if let Ok(cfg) = item`
Accepts(it) == it.cfg.ok

\* a task whose write leaves the old snapshot in place
StoreNothing(old, new) == old

\* a task that keeps the keys of the old snapshot the reload does not have
StoreOver(old, new) ==
    [new EXCEPT !.cfg.inner =
        [k \in (DOMAIN old.cfg.inner) \cup (DOMAIN new.cfg.inner) |->
            IF k \in DOMAIN new.cfg.inner THEN new.cfg.inner[k]
            ELSE old.cfg.inner[k]]]

\* `*config.write().await = cfg`
Store(old, new) == new

\* how many signals the channel holds: a signal leaves the queue once
\* every receiver has received it, and the receiver kept in the
\* WatchableConfig never receives
Queued == IF handle THEN Len(sigs) ELSE Len(sigs) - lpos
\* the channel is closed once its last receiver is dropped
Closed == ~handle /\ lpc = "gone"

WatchFilesystems ==
    {f \in [AllPaths -> Contents \cup {Absent}] :
        /\ f[PathA1] = MapV([x |-> IntV(1)])
        /\ f[WatchedFile] \in {MapV([x |-> IntV(2), y |-> IntV(3)]), Bad}
        /\ f[PathA2] = Absent /\ f[PathN2] = Absent}

\* a constructor that stores the result of the initial load as it is
unwrap_or_self(cfg) == cfg

\* `finder.config().await.unwrap_or_default()`
unwrap_or_default(cfg) == IF cfg.ok THEN cfg ELSE ConfigDefault

\* WatchableConfig::new has returned and listen() was called once; the
\* task is spawned and has not been polled yet.  `item` is the last result
\* of finder.config(): that of the initial load until the first reload.
WatchInit ==
    /\ MergeIdle
    /\ fs \in WatchFilesystems
    /\ gen = "v2" /\ locators = <<DirLoc(DirD), DirLoc(DirE)>>
    /\ sorter = "none" /\ filter = "none" /\ dflt = "none"
    /\ cpc = "off" /\ concat = <<>> /\ located = <<>> /\ result = NoResult
    /\ events = <<>> /\ last = <<>> /\ elapsed = 0 /\ since = 0
    /\ wpc = "start"
    /\ \E ord \in Orders(fs) :
        LET cfg == config(gen, fs, filter, sorter, dflt,
                          files(gen, fs, locators, Patterns(gen), ord))
        IN /\ item = [cfg |-> cfg, ver |-> 0]
           /\ snapshot = [cfg |-> unwrap_or_default(cfg), ver |-> 0]
    /\ sigs = <<>> /\ handle = TRUE
    /\ lpc = "wait" /\ lpos = 0 /\ view = snapshot.ver

\* the watcher exists from the first poll of the stream to the end of the
\* task
Watching == wpc \notin {"start", "done"}

\* the watched file is rewritten; the watcher, if there is one, reports it
Change ==
    /\ Watching => Len(events) < MaxQueued
    /\ \E c \in {MapV([x |-> IntV(2), y |-> IntV(3)]), Bad} :
        /\ c # fs[WatchedFile]
        /\ fs' = [fs EXCEPT ![WatchedFile] = c]
    /\ events' = IF Watching
                 THEN Append(events, Event("modify", <<WatchedFile>>))
                 ELSE events
    /\ UNCHANGED <<mergeVars, finderVars, callVars, last, elapsed, since, wpc, item,
                   snapshot, sigs, handle, lpc, lpos, view>>

\* the watcher reports an event that changes no configuration file
Emit ==
    /\ Watching
    /\ Len(events) < MaxQueued
    /\ \E ev \in WatchEvents : events' = Append(events, ev)
    /\ UNCHANGED <<mergeVars, fs, finderVars, callVars, last, elapsed, since, wpc,
                   item, snapshot, sigs, handle, lpc, lpos, view>>

\* time passes
Tick ==
    /\ elapsed < DebounceMs \/ since < DebounceMs
    /\ elapsed' = IF elapsed + TickMs < DebounceMs THEN elapsed + TickMs
                  ELSE DebounceMs
    /\ since' = IF since + TickMs < DebounceMs THEN since + TickMs
                ELSE DebounceMs
    /\ UNCHANGED <<mergeVars, fs, finderVars, callVars, events, last, wpc,
                   item, snapshot, sigs, handle, lpc, lpos, view>>

\* Locator::root: the DirLocator of locator/dir_locator.rs has `todo!()`
\* for a body, every other locator returns its root
RootPanics(v, loc) == v = "v3" /\ loc.kind = "dir"

\* the watches watch() registers: for every locator, in order,
\* `watcher.watch(root, RecursiveMode::NonRecursive).unwrap()`; notify
\* fails on a path that does not exist.  The registration ends at the
\* first panic.
watch_roots(v, locs) ==
    LET bad == {i \in 1..Len(locs) :
                    RootPanics(v, locs[i]) \/ locs[i].root \notin ExistingDirs}
        n == IF bad = {} THEN Len(locs) ELSE Min(bad) - 1
    IN [panic |-> bad # {},
        watches |-> [i \in 1..n |->
                        [root |-> locs[i].root, mode |-> "NonRecursive"]]]

\* watch(): the first poll of the stream creates the watcher and
\* registers the root of every locator; a panic ends the task
Register ==
    /\ wpc = "start"
    /\ wpc' = IF watch_roots(gen, locators).panic THEN "done" ELSE "select"
    /\ UNCHANGED <<mergeVars, fs, finderVars, callVars, events, last, elapsed,
                   since, item, snapshot, sigs, handle, lpc, lpos, view>>

\* watch(): `recv.next()` yields an event; the loop body runs up to its
\* `continue` or up to the call of finder.config()
Receive ==
    /\ wpc = "select"
    /\ events # <<>>
    /\ events' = Tail(events)
    /\ LET ev == Head(events) IN
        /\ since' = IF ev.err THEN since ELSE 0
        /\ IF ev.err \/ Debounced(last, elapsed, ev)
           THEN UNCHANGED <<last, elapsed, wpc>>
           ELSE
             /\ last' = <<ev>>
             /\ elapsed' = 0
             /\ wpc' = IF RelevantKind(ev.kind)
                          /\ matche_any(Patterns(gen), ev.paths)
                       THEN "reload" ELSE "select"
    /\ UNCHANGED <<mergeVars, fs, finderVars, callVars, item, snapshot, sigs,
                   handle, lpc, lpos, view>>

\* finder.config() returns, the stream yields its result and the task
\* tests it
Reload ==
    /\ wpc = "reload"
    /\ snapshot.ver < MaxReloads
    /\ \E ord \in Orders(fs) :
        item' = [cfg |-> config(gen, fs, filter, sorter, dflt,
                                files(gen, fs, locators, Patterns(gen), ord)),
                 ver |-> snapshot.ver + 1]
    /\ wpc' = IF Accepts(item') THEN "write" ELSE "select"
    /\ UNCHANGED <<mergeVars, fs, finderVars, callVars, events, last, elapsed,
                   since, snapshot, sigs, handle, lpc, lpos, view>>

\* a task that took the write lock before it computed the reload
WriteLockedWhileReloading == wpc \in {"reload", "swap"}

\* the lock of the snapshot, as the positions of its two users show it:
\* the task holds the write guard from `config.write().await` to the end
\* of the assignment, a reader its read guard from `config.read().await`
\* to the end of the method
WriteLocked == wpc = "swap"

ReadLocked == lpc = "reading"

\* `config.write().await`: the yielded config in hand, the task waits for
\* the readers to leave and takes the write lock
WriteLock ==
    /\ wpc = "write"
    /\ ~ReadLocked
    /\ wpc' = "swap"
    /\ UNCHANGED <<mergeVars, fs, finderVars, callVars, events, last, elapsed,
                   since, item, snapshot, sigs, handle, lpc, lpos, view>>

\* under the write lock the task replaces the snapshot; the guard is
\* dropped at the end of the statement
Write ==
    /\ wpc = "swap"
    /\ snapshot' = Store(snapshot, item)
    /\ wpc' = "broadcast"
    /\ UNCHANGED <<mergeVars, fs, finderVars, callVars, events, last, elapsed,
                   since, item, sigs, handle, lpc, lpos, view>>

\* `sx.broadcast(()).await`: waits while the channel is full, fails once
\* the channel is closed
Broadcast ==
    /\ wpc = "broadcast"
    /\ \/ /\ Closed
          /\ wpc' = "done"
          /\ UNCHANGED sigs
       \/ /\ ~Closed
          /\ Queued < BroadcastCap
          /\ sigs' = Append(sigs, item.ver)
          /\ wpc' = "select"
    /\ UNCHANGED <<mergeVars, fs, finderVars, callVars, events, last, elapsed,
                   since, item, snapshot, handle, lpc, lpos, view>>

\* select! takes the `killrx` branch: the task ends
Killed ==
    /\ wpc \in {"start", "select", "reload"}
    /\ ~handle
    /\ wpc' = "done"
    /\ UNCHANGED <<mergeVars, fs, finderVars, callVars, events, last, elapsed,
                   since, item, snapshot, sigs, handle, lpc, lpos, view>>

\* Drop for WatchableConfig: the kill signal is sent and the receiver the
\* handle kept is dropped
Drop ==
    /\ handle
    /\ ~ReadLocked
    /\ handle' = FALSE
    /\ UNCHANGED <<mergeVars, fs, finderVars, callVars, events, last, elapsed,
                   since, wpc, item, snapshot, sigs, lpc, lpos, view>>

\* the listener receives its next signal
Listen ==
    /\ lpc = "wait"
    /\ lpos < Len(sigs)
    /\ lpos' = lpos + 1
    /\ lpc' = "read"
    /\ UNCHANGED <<mergeVars, fs, finderVars, callVars, events, last, elapsed,
                   since, wpc, item, snapshot, sigs, handle, view>>

\* the listener, signalled, calls snapshot() on the handle:
\* `config.read().await` waits while the writer holds the lock
ReadLock ==
    /\ lpc = "read"
    /\ handle
    /\ ~WriteLocked
    /\ lpc' = "reading"
    /\ UNCHANGED <<mergeVars, fs, finderVars, callVars, events, last, elapsed,
                   since, wpc, item, snapshot, sigs, handle, lpos, view>>

\* under the read lock the listener clones the snapshot
Snapshot ==
    /\ lpc = "reading"
    /\ view' = snapshot.ver
    /\ lpc' = "wait"
    /\ UNCHANGED <<mergeVars, fs, finderVars, callVars, events, last, elapsed,
                   since, wpc, item, snapshot, sigs, handle, lpos>>

\* the listener drops its stream; as long as the handle lives its own
\* receiver keeps the channel open and full whatever the listener does, so
\* the listener is let go only after the handle
Unlisten ==
    /\ lpc \in {"wait", "read"}
    /\ ~handle
    /\ lpc' = "gone"
    /\ UNCHANGED <<mergeVars, fs, finderVars, callVars, events, last, elapsed,
                   since, wpc, item, snapshot, sigs, handle, lpos, view>>

WatchNext ==
    \/ Change \/ Emit \/ Tick
    \/ Register \/ Receive \/ Reload \/ WriteLock \/ Write \/ Broadcast
    \/ Killed
    \/ Drop \/ Listen \/ ReadLock \/ Snapshot \/ Unlisten

SpecWatch == WatchInit /\ [][WatchNext]_vars

----------------------------------------------------------------------------
(* The watch loop, claim by claim.                                         *)

\* every signal sent, and every snapshot a signalled listener read, has
\* its reload's Config already stored
ReplacedBeforeSignalled ==
    /\ \A i \in 1..Len(sigs) : sigs[i] <= snapshot.ver
    /\ (lpc = "wait" /\ lpos > 0) => view >= sigs[lpos]

\* C9 (as claimed): in the watch loop every successful reload replaces the
\* snapshot and then has its signal broadcast to the listeners: no signal
\* is sent before its replacement, a listener that was signalled reads a
\* snapshot at least as new as the reload that caused the signal, and the
\* task that has stored a reload gets its signal into the channel.
C9_ReplaceThenSignal ==
    (wpc # "off") =>
        /\ ReplacedBeforeSignalled
        /\ (wpc = "broadcast" /\ ~Closed) => Queued < BroadcastCap

\* C10: a step of the task that ends a failed reload leaves the snapshot
\* and the channel as they were and takes the task back to its select;
\* the snapshot changes only when the task stores the Config of a
\* successful reload, a signal is sent only for a stored reload, and the
\* snapshot is never an error.
C10_FailedReloadKeepsSnapshot ==
    [][ /\ (wpc = "reload" /\ wpc' \notin {"reload", "done"}
                /\ \A ord \in Orders(fs) :
                     ~config(gen, fs, filter, sorter, dflt,
                             files(gen, fs, locators, Patterns(gen), ord)).ok)
            => (snapshot' = snapshot /\ sigs' = sigs /\ wpc' = "select")
        /\ (snapshot' # snapshot)
            => (wpc = "swap" /\ item.cfg.ok /\ snapshot' = item)
        /\ (sigs' # sigs)
            => (wpc = "broadcast" /\ snapshot.ver = item.ver)
        /\ (wpc' # "off") => snapshot'.cfg.ok ]_vars

\* a reload failed after an earlier one had succeeded: the task is back at
\* its select with the earlier snapshot and no signal for the failure
C10_Witness ==
    /\ wpc = "select" /\ handle
    /\ ~item.cfg.ok /\ item.ver = 2
    /\ snapshot.cfg.ok /\ snapshot.ver = 1
    /\ snapshot.cfg.inner = [x |-> IntV(2), y |-> IntV(3)]
    /\ fs[WatchedFile] = Bad
    /\ sigs = <<1>>

\* the step in which `recv` yields the event at the head of the queue
Yields == wpc = "select" /\ events # <<>> /\ events' = Tail(events)
\* the yielded event was dropped by the debounce test: `last` and
\* `last_time` stay as they were
Discards == Yields /\ ~Head(events).err /\ last' = last /\ elapsed' = elapsed

\* C11 (as claimed): an event is discarded by the debounce rule exactly
\* when it equals the event received just before it, discarded or not, and
\* less than the window has passed since that event was received; and a
\* discarded event starts no reload.
C11_DebounceRule ==
    [][ (Yields /\ ~Head(events).err) =>
            /\ Discards <=> (/\ last # <<>>
                             /\ last[1] = Head(events)
                             /\ since < DebounceMs)
            /\ Discards => wpc' = "select" ]_vars

\* the event is of no watched kind, or none of its paths has a file name
\* that a compiled pattern matches
Irrelevant(ev) ==
    \/ ev.kind \notin {"create", "modify", "remove"}
    \/ \A i \in 1..Len(ev.paths) : \A j \in 1..Len(Patterns(gen)) :
            FileName(ev.paths[i]) \notin Patterns(gen)[j]

\* C12: the step that receives an irrelevant event starts no reload:
\* config() is not run, the snapshot and the channel stay as they were
\* and the task stays at its select.
C12_IrrelevantEventNoReload ==
    [][ (Yields /\ ~Head(events).err /\ Irrelevant(Head(events))) =>
            /\ wpc' = "select"
            /\ item' = item
            /\ snapshot' = snapshot
            /\ sigs' = sigs ]_vars

\* an event for a file no pattern matches was received, outside any
\* debounce window, and nothing was reloaded
C12_Witness ==
    /\ wpc = "select" /\ events = <<>>
    /\ last = <<Event("modify", <<PathN2>>)>> /\ elapsed = 0
    /\ item.ver = 0 /\ snapshot.ver = 0 /\ sigs = <<>>

\* C13 (as claimed): once the WatchableConfig is dropped, and with it the
\* cancellation signal sent, no step replaces the snapshot.
C13_NoReplaceAfterCancel ==
    [][ ~handle => snapshot' = snapshot ]_vars

\* The task is scheduled fairly: a reload, a write or a broadcast that can
\* run does run, and a select! that is polled again and again with the
\* kill branch ready takes it in the end.  Nothing is assumed of the
\* filesystem, the clock or the listener.
\* The reload step can be taken: the guard of Reload.
CanReload == wpc = "reload" /\ snapshot.ver < MaxReloads

\* Weak fairness of Reload is written out over its guard.
TaskFairness ==
    /\ WF_vars(Register) /\ WF_vars(Receive) /\ WF_vars(WriteLock) /\ WF_vars(Write)
    /\ WF_vars(Broadcast) /\ SF_vars(Killed)
    /\ ([]<>(~CanReload) \/ []<><<Reload>>_vars)

\* The behaviours in which the listener keeps its stream without polling
\* it and the watcher reports nothing but the changes of the watched file.
QuietNext ==
    \/ Change \/ Tick
    \/ Register \/ Receive \/ Reload \/ WriteLock \/ Write \/ Broadcast
    \/ Killed
    \/ Drop \/ Unlisten

SpecWatchFair == WatchInit /\ [][QuietNext]_vars /\ TaskFairness

\* C14 (as claimed): once the WatchableConfig is dropped, the task ends,
\* whatever it was doing.
C14_TerminatesAfterCancel == (~handle) ~> (wpc = "done")

\* C15 (as claimed): a listener that does not consume its signals never
\* blocks the writer: whenever the task has stored a config and is about to
\* signal it, the broadcast can complete (the channel is closed or has room),
\* so the task goes on to later events.
C15_WriterNeverBlocked ==
    wpc = "broadcast" => (Closed \/ Queued < BroadcastCap)

\* The snapshot holds what config() returns for the files as they are now
\* (when config() fails there is nothing the snapshot could equal).
Consistent ==
    \E ord \in Orders(fs) :
        LET c == config(gen, fs, filter, sorter, dflt,
                        files(gen, fs, locators, Patterns(gen), ord))
        IN  c.ok => snapshot.cfg = c

\* C16 (as claimed): if the WatchableConfig is never dropped and the files
\* stop changing, the snapshot eventually equals, and keeps equal to, what
\* config() returns for the final files.
C16_EventuallyConsistent ==
    ([]handle /\ <>[][fs' = fs]_vars) => <>[]Consistent

\* C17: the task holds the write lock for the swap alone.  The config it
\* is about to store is complete before it asks for the lock; with the lock
\* held its one step is the assignment, which releases the lock; and while
\* a reload is being computed the lock is not write-held, so that a reader
\* who asks for the read lock gets it and reads the previous snapshot.
C17_WriteLockOnlyForSwap ==
    [][ /\ (wpc \in {"write", "swap"})
            => (item.cfg.ok /\ item.ver = snapshot.ver + 1)
        /\ (WriteLocked /\ wpc' # wpc)
            => (snapshot' = item /\ wpc' = "broadcast" /\ ~WriteLocked')
        /\ (wpc = "reload" /\ lpc = "read" /\ handle)
            => ENABLED ReadLock
        /\ (wpc = "reload" /\ lpc = "reading" /\ lpc' = "wait")
            => (view' = snapshot.ver /\ snapshot' = snapshot) ]_vars

\* a reader signalled for the first reload holds the read lock while the
\* second reload is being computed
C17_Witness ==
    /\ wpc = "reload" /\ lpc = "reading"
    /\ snapshot.ver = 1 /\ view = 0 /\ handle

\* the snapshot a handle starts with when the initial load failed
DefaultSnapshot == [cfg |-> ConfigDefault, ver |-> 0]

\* C29: if the initial config() of WatchableConfig::new fails, the handle is
\* still returned, with the empty default Config (no keys, no provenance)
\* as its snapshot and the task spawned; the snapshot stays until the task
\* stores a reload, and the first reload stored is a successful one.
C29_FailedInitialLoad ==
    /\ (item.ver = 0 /\ ~item.cfg.ok) =>
            /\ snapshot = DefaultSnapshot
            /\ snapshot.cfg.inner = EmptyMap /\ snapshot.cfg.files = <<>>
            /\ wpc # "off"
    /\ (snapshot.ver = 0 /\ wpc \in {"write", "swap"}) =>
            item.cfg.ok /\ item.ver = 1 /\ item.cfg # ConfigDefault
    /\ (snapshot.ver = 1 /\ wpc = "broadcast") =>
            snapshot = item /\ snapshot.cfg # ConfigDefault

\* the initial load failed, the file was repaired, and the task is about
\* to replace the empty snapshot by the first successful reload
C29_Witness ==
    /\ snapshot = DefaultSnapshot /\ handle
    /\ wpc = "swap" /\ item.cfg.ok /\ item.ver = 1
    /\ item.cfg.inner = [x |-> IntV(2), y |-> IntV(3)]

----------------------------------------------------------------------------
(* ConfigBuilder::build_with: the name patterns are registered as          *)
(* templates, rendered once per extension of the loader, and the rendered  *)
(* strings compiled to globs.                                              *)

\* longest list of name patterns a builder is given
MaxNames == 3

\* the name patterns: one that is fine, one with a placeholder the context
\* has no field for, one that is no template (an unclosed brace), one that
\* renders to a string that is no glob (an unclosed bracket)
NamePatterns == {"a.{ext}", "{name}.{ext}", "a.{ext", "[a.{ext}"}

\* TinyTemplate::add_template fails on a string it cannot parse
Registers(name) == name # "a.{ext"
\* TinyTemplate::render fails on a placeholder that is no field of Context
Renders(name) == name # "{name}.{ext}"
\* the rendered string: the template with its placeholder filled in
Render(name, ext) ==
    IF name = "a.{ext}" THEN "a." \o ext ELSE "[a." \o ext
\* glob::Pattern::new fails on an unclosed character class
IsGlob(str) == str \notin {"[a.json", "[a.yaml"}

BuildErr == [ok |-> FALSE, panic |-> FALSE, patterns |-> <<>>]
BuildPanic == [ok |-> FALSE, panic |-> TRUE, patterns |-> <<>>]

\* build_with: `.expect("")` on every registration, `?` on the collected
\* renderings, `.unwrap()` on every compilation
build_with(search_names, extensions) ==
    IF \E i \in 1..Len(search_names) : ~Registers(search_names[i])
    THEN BuildPanic
    ELSE IF \E i \in 1..Len(search_names) : ~Renders(search_names[i])
    THEN BuildErr
    ELSE LET rendered ==
                Flatten([e \in 1..Len(extensions) |->
                    [i \in 1..Len(search_names) |->
                        Render(search_names[i], extensions[e])]])
         IN IF \E i \in 1..Len(rendered) : ~IsGlob(rendered[i])
            THEN BuildPanic
            ELSE [ok |-> TRUE, panic |-> FALSE, patterns |-> rendered]

BuildInit ==
    /\ MergeIdle
    /\ fs = [p \in {} |-> None]
    /\ gen = "none" /\ locators = <<>> /\ sorter = "none" /\ filter = "none"
    /\ dflt = "none"
    /\ cpc = "idle" /\ concat = <<>> /\ located = <<>> /\ result = NoResult
    /\ WatchOff

\* a caller runs build() on a builder with some name patterns and a loader
\* with some encoders
CallBuild ==
    /\ cpc = "idle"
    /\ \E search_names \in SeqsUpTo(NamePatterns, MaxNames),
          extensions \in {<<"json">>, <<"json", "yaml">>} :
        result' = [search_names |-> search_names,
                   extensions |-> extensions,
                   finder |-> build_with(search_names, extensions)]
    /\ cpc' = "build"
    /\ UNCHANGED <<mergeVars, fs, finderVars, concat, located, watchVars>>

SpecBuild == BuildInit /\ [][CallBuild]_vars

\* C21 (as claimed): when a name pattern cannot be registered or rendered,
\* or renders to a string that is no glob, build() returns an error: it
\* returns no finder and does not panic.
C21_BuildFailsWithError ==
    (/\ cpc = "build"
     /\ \E i \in 1..Len(result.search_names) :
            result.search_names[i] # "a.{ext}")
        => result.finder = BuildErr

----------------------------------------------------------------------------
(* One locator, asked to locate on a filesystem that may hold the          *)
(* subdirectory.                                                           *)

\* deepest depth a recursive locator is configured with
MaxDepth == 2

LocateFilesystems ==
    {f \in [AllPaths \cup {SubDir, PathDeep}
                -> {Absent, Bad, DirMark, MapV([x |-> IntV(1)])}] :
        /\ \A p \in {PathA1, PathB1, PathA2} : f[p] \in {Absent, MapV([x |-> IntV(1)])}
        /\ f[PathN2] \in {Absent, Bad}
        /\ f[SubDir] # Bad
        /\ f[PathDeep] \in {Absent, MapV([x |-> IntV(1)])}
        /\ f[PathDeep] # Absent => f[SubDir] = DirMark}

OneLocator ==
    {DirLoc(r) : r \in {TopDir, DirD, DirE, MissingDir}}
    \cup {WalkLoc(r, n) : r \in {TopDir, DirD, DirE, MissingDir}, n \in 0..MaxDepth}

LocateInit ==
    /\ MergeIdle
    /\ fs \in LocateFilesystems
    /\ gen \in {"v1", "v2", "v3"}
    /\ \E loc \in OneLocator : locators = <<loc>>
    /\ sorter = "none" /\ filter = "none" /\ dflt = "none"
    /\ cpc = "idle" /\ concat = <<>> /\ located = <<>> /\ result = NoResult
    /\ WatchOff

\* a caller runs locate on the locator, to the end of what it returns
CallLocate ==
    /\ cpc = "idle"
    /\ \E ord \in Orders(fs) :
        concat' = Locate(gen, fs, locators[1], Patterns(gen), ord)
    /\ cpc' = "locate"
    /\ UNCHANGED <<mergeVars, fs, finderVars, located, result, watchVars>>

SpecLocate == LocateInit /\ [][CallLocate]_vars

\* how many directories lie between the root and the file p
LevelBelow(root, p) == Len(Parent(p)) - Len(root)

IsBelow(root, p) == Len(p) > Len(root) /\ SubSeq(p, 1, Len(root)) = root

\* the regular files below root whose file name matches a pattern
MatchingFilesBelow(root) ==
    {p \in DOMAIN fs :
        /\ fs[p] \notin {Absent, DirMark}
        /\ IsBelow(root, p)
        /\ MatchesAny(Patterns(gen), FileName(p))}

\* C23 (as claimed): a recursive locator of depth 0 over a root that
\* exists returns every regular file below the root, at any depth, whose
\* file name matches a pattern, and it comes to an end.
C23_DepthZeroUnbounded ==
    (/\ cpc = "locate" /\ locators[1].kind = "walk" /\ locators[1].depth = 0
     /\ locators[1].root \in ExistingDirs)
        => /\ \A p \in MatchingFilesBelow(locators[1].root) :
                \E i \in 1..Len(concat) : concat[i] = p
           /\ \A i \in 1..Len(concat) : concat[i] # Again

\* C24 (as claimed): the flat locator returns nothing but regular files
\* that are immediate entries of its root and whose file name matches a
\* pattern: no directory, and nothing from a subdirectory.
C24_FlatLocatorFilesOnly ==
    (cpc = "locate" /\ locators[1].kind = "dir") =>
        \A i \in 1..Len(concat) :
            concat[i] # ErrItem =>
                /\ Parent(concat[i]) = locators[1].root
                /\ ~IsDir(concat[i])
                /\ fs[concat[i]] \notin {Absent, DirMark}
                /\ MatchesAny(Patterns(gen), FileName(concat[i]))

----------------------------------------------------------------------------
(* The registration of the watches, for finders of every locator variant.  *)

\* most locators a watched finder holds
MaxLocators == 2

RegisterInit ==
    /\ MergeIdle
    /\ fs \in {f \in LocateFilesystems :
                    \A p \in AllPaths \cup {PathDeep} : f[p] = Absent}
    /\ gen \in {"v2", "v3"}
    /\ locators \in {l \in SeqsUpTo(OneLocator, MaxLocators) : l # <<>>}
    /\ sorter = "none" /\ filter = "none" /\ dflt = "none"
    /\ cpc = "idle" /\ concat = <<>> /\ located = <<>> /\ result = NoResult
    /\ WatchOff

\* the stream watch(finder) is polled for the first time
CallWatch ==
    /\ cpc = "idle"
    /\ result' = watch_roots(gen, locators)
    /\ cpc' = "watch"
    /\ UNCHANGED <<mergeVars, fs, finderVars, concat, located, watchVars>>

SpecRegister == RegisterInit /\ [][CallWatch]_vars

\* C25 (as claimed): when the watch loop starts on a finder whose roots
\* exist, the registration does not fail, and it leaves one watch for every
\* locator, on its root: recursive for a walking locator, non-recursive for
\* a flat one.
C25_WatchesEveryRoot ==
    (/\ cpc = "watch"
     /\ \A i \in 1..Len(locators) : locators[i].root \in ExistingDirs)
        => /\ ~result.panic
           /\ Len(result.watches) = Len(locators)
           /\ \A i \in 1..Len(locators) :
                result.watches[i] =
                    [root |-> locators[i].root,
                     mode |-> IF locators[i].kind = "walk"
                              THEN "Recursive" ELSE "NonRecursive"]

----------------------------------------------------------------------------
(* Indexing: src/src/value/index.rs and the Index impls of Config in       *)
(* src/src/config.rs.  An index is a string key [K |-> s] or a position    *)
(* [P |-> n], counted from 0.  A call gives the value the returned         *)
(* reference points to (out), the indexed value as the call leaves it      *)
(* (self), and whether the call panicked.                                  *)

\* most indexings chained in one expression
MaxChain == 2

KeyI(s) == [K |-> s]
PosI(n) == [P |-> n]
IsKey(i) == "K" \in DOMAIN i
Keys == {KeyI(s) : s \in {"a", "x", "key", ""}}
Positions == {PosI(n) : n \in 0..MaxLen}

\* Option<&Value>
SomeRef(v) == [some |-> TRUE, val |-> v]
NoRef == [some |-> FALSE, val |-> None]

\* <usize as Index>::index_into and <str as Index>::index_into
index_into(i, v) ==
    IF IsKey(i)
    THEN IF IsMap(v) /\ i.K \in DOMAIN v.M THEN SomeRef(v.M[i.K]) ELSE NoRef
    ELSE IF IsList(v) /\ i.P < Len(v.L) THEN SomeRef(v.L[i.P + 1]) ELSE NoRef

\* index_or_insert: a key turns none into an empty map and inserts a missing
\* entry; a position out of range, or the wrong variant, panics
index_or_insert(i, v) ==
    IF IsKey(i)
    THEN LET m == IF IsNone(v) THEN MapV(EmptyMap) ELSE v
         IN IF IsMap(m)
            THEN [out |-> EntryOrNone(m.M, i.K),
                  self |-> MapV(Put(m.M, i.K, EntryOrNone(m.M, i.K))),
                  panic |-> FALSE]
            ELSE [out |-> None, self |-> v, panic |-> TRUE]
    ELSE IF IsList(v) /\ i.P < Len(v.L)
         THEN [out |-> v.L[i.P + 1], self |-> v, panic |-> FALSE]
         ELSE [out |-> None, self |-> v, panic |-> TRUE]

\* <Value as ops::IndexMut<I>>::index_mut
index_mut(v, i) == index_or_insert(i, v)

\* <Value as ops::Index<I>>::index: index_into(self).unwrap_or(&NULL)
index(v, i) ==
    LET r == index_into(i, v)
    IN [out |-> IF r.some THEN r.val ELSE None, self |-> v, panic |-> FALSE]

\* Config: the map and the provenance
IsConfig(v) == "inner" \in DOMAIN v

\* <Config as ops::Index<S>>::index: inner.get(idx).unwrap_or(&NULL)
config_index(cfg, i) ==
    [out |-> IF i.K \in DOMAIN cfg.inner THEN cfg.inner[i.K] ELSE None,
     self |-> cfg, panic |-> FALSE]

RECURSIVE ReplaceAt(_, _, _)
\* the root after the value its path leads to became new; a path that leaves
\* the root leads to the static NULL, which is no part of the root
ReplaceAt(root, path, new) ==
    IF path = <<>> THEN new
    ELSE LET i == Head(path)
         IN IF IsConfig(root) /\ IsKey(i) /\ i.K \in DOMAIN root.inner
            THEN [root EXCEPT !.inner[i.K] = ReplaceAt(@, Tail(path), new)]
            ELSE IF IsMap(root) /\ IsKey(i) /\ i.K \in DOMAIN root.M
            THEN [root EXCEPT !.M[i.K] = ReplaceAt(@, Tail(path), new)]
            ELSE IF IsList(root) /\ ~IsKey(i) /\ i.P < Len(root.L)
            THEN [root EXCEPT !.L[i.P + 1] = ReplaceAt(@, Tail(path), new)]
            ELSE root

\* the values and configurations that are indexed
IndexRoots ==
    MergeInputs
    \cup {StrV("Test")}
    \cup {[inner |-> m, files |-> <<PathA1>>] : m \in MapsOver({"a", "key"}, Level1)}
    \cup {[inner |-> EmptyMap, files |-> <<>>]}

NoIndexing == [path |-> <<>>, target |-> None, out |-> None, panic |-> FALSE]

\* a0 is the root as it was, a the root as it is, b what the last returned
\* reference points to
IndexInit ==
    /\ a0 \in IndexRoots
    /\ a = a0 /\ b = a0
    /\ mpc = "index"
    /\ fs = [p \in {} |-> None]
    /\ gen = "none" /\ locators = <<>> /\ sorter = "none" /\ filter = "none"
    /\ dflt = "none"
    /\ cpc = "off" /\ concat = <<>> /\ located = <<>> /\ result = NoIndexing
    /\ WatchOff

\* the outcome r of indexing b by i is recorded
Indexed(i, r) ==
    /\ result' = [path |-> Append(result.path, i), target |-> b,
                  out |-> r.out, panic |-> r.panic]
    /\ a' = ReplaceAt(a, result.path, r.self)
    /\ b' = r.out
    /\ UNCHANGED <<a0, mpc, fs, finderVars, cpc, concat, located, watchVars>>

\* value[i], on the root or on what the last indexing returned
IndexValue ==
    /\ mpc = "index" /\ ~result.panic /\ Len(result.path) < MaxChain
    /\ ~IsConfig(b)
    /\ \E i \in Keys \cup Positions : Indexed(i, index(b, i))

\* config[key]
IndexConfig ==
    /\ mpc = "index" /\ ~result.panic /\ Len(result.path) < MaxChain
    /\ IsConfig(b)
    /\ \E i \in Keys : Indexed(i, config_index(b, i))

SpecIndex == IndexInit /\ [][IndexValue \/ IndexConfig]_vars

\* the last indexing found nothing: the key or position is absent, or the
\* value is not a map (for a key) or a list (for a position)
NothingThere ==
    LET i == result.path[Len(result.path)]
        t == result.target
    IN IF IsConfig(t) THEN i.K \notin DOMAIN t.inner
       ELSE IF IsKey(i) THEN ~IsMap(t) \/ i.K \notin DOMAIN t.M
       ELSE ~IsList(t) \/ i.P >= Len(t.L)

\* C28: indexing a Value of any variant by a key or a position, chained to
\* any depth, and indexing a Config by a key, never panics, leaves the
\* indexed value unchanged, and yields the none sentinel whenever the key or
\* position is absent or the value is not a map (key) or a list (position).
C28_ReadOnlyIndexing ==
    (mpc = "index" /\ result.path # <<>>) =>
        /\ ~result.panic
        /\ a = a0
        /\ NothingThere => b = None

\* the string "Test" was indexed by "key" and the result by ""
C28_Witness ==
    /\ mpc = "index" /\ a0 = StrV("Test")
    /\ result.path = <<KeyI("key"), KeyI("")>>
    /\ b = None /\ a = a0

----------------------------------------------------------------------------
(* set, get and contains on the handle.  watch.rs calls Config::set(name,  *)
(* value) and Config::contains(name), which the Config of config.rs does   *)
(* not have: they are taken as the unconditional upsert and the existence  *)
(* check their callers expect.                                             *)

\* Config::set: the value is stored under the name, the provenance stays
config_set(cfg, name, value) == [cfg EXCEPT !.inner = Put(@, name, value)]

\* Config::contains
contains(cfg, name) == name \in DOMAIN cfg.inner

\* Config::get: inner.get(name)
get(cfg, name) ==
    IF name \in DOMAIN cfg.inner THEN SomeRef(cfg.inner[name]) ELSE NoRef

\* the value the caller writes: no file holds it
Written == IntV(9)

\* WatchableConfig::set: `config.write().await` waits for the lock, the
\* value is stored, the guard is dropped; nothing is sent.  `result`
\* keeps what was written and the version of the snapshot written to.
Set ==
    /\ handle
    /\ result = NoResult
    /\ ~WriteLocked /\ ~ReadLocked
    /\ \E name \in {"x", "w"} :
        /\ snapshot' = [snapshot EXCEPT !.cfg = config_set(@, name, Written)]
        /\ result' = [name |-> name, value |-> Written, ver |-> snapshot.ver,
                      previous |-> get(snapshot.cfg, name)]
    /\ UNCHANGED <<mergeVars, fs, finderVars, cpc, concat, located, events, last,
                   elapsed, since, wpc, item, sigs, handle, lpc, lpos, view>>

\* WatchableConfig::get, contains and snapshot of the written name, under
\* the read lock; `located` keeps what the caller got
Get ==
    /\ handle
    /\ result # NoResult
    /\ ~WriteLocked
    /\ located' = <<[ver |-> snapshot.ver,
                     get |-> get(snapshot.cfg, result.name),
                     contains |-> contains(snapshot.cfg, result.name),
                     snapshot |-> snapshot.cfg]>>
    /\ UNCHANGED <<mergeVars, fs, finderVars, cpc, concat, result, watchVars>>

SpecSet == WatchInit /\ [][QuietNext \/ Set \/ Get]_vars

\* a Config that holds the written value under the written name
HoldsWritten(cfg) ==
    /\ get(cfg, result.name) = SomeRef(result.value)
    /\ contains(cfg, result.name)

\* a Config built from the files alone
FromFiles(cfg) ==
    /\ cfg.ok /\ cfg.files # <<>>
    /\ get(cfg, result.name) # SomeRef(result.value)
    /\ result.name = "w" => ~contains(cfg, result.name)

SpecMerge == MergeInit /\ [][Merge]_vars

ConfigNext == CallFiles \/ CallConfig \/ CallLoadAll
SpecConfig == ConfigInit /\ [][ConfigNext]_vars

====
